---------------------------- MODULE Spec2Model ----------------------------
(***************************************************************************)
(* ICS -> Notion synchronisation (sync_ics_to_notion.py and                *)
(* sync_ics_to_notion_FIXED.py).                                           *)
(*                                                                         *)
(* Text is modelled as a sequence of tokens (a token is a word, a          *)
(* separator or a single character such as "|").  The empty string is      *)
(* << >>.  The Japanese literals of the source are written in romaji:      *)
(*   yotei = the "scheduled" kind, kekka = the "result" kind,              *)
(*   kakutei / zantei / mitei = the three certainty values,                *)
(*   labels of DESCRIPTION lines: shubetsu (type), taikai (tournament),    *)
(*   round, setsu_round_fw / setsu_round_hw (round, fullwidth / halfwidth  *)
(*   slash), kubun (kind), kakudo (certainty), shutten (source), score,    *)
(*   taisen (matchup), home, away; the same words name the database        *)
(*   properties, with card (title), kaishi (start), shuryo (end),          *)
(*   kaijo (venue), koshinbi (updated) and UID, fingerprint.               *)
(* The token "/" is the fullwidth slash of SUMMARY, " " a blank, "vs" a    *)
(* versus separator with its blanks, "fwspace" the fullwidth space and     *)
(* "kaijo_fumei" the venue-unknown marker of LOCATION.                     *)
(***************************************************************************)
EXTENDS Integers, Sequences, FiniteSets, TLC

\* ------------------------------------------------------------------
\* Bounds of the model
\* ------------------------------------------------------------------
MaxEvents == 2      \* VEVENTs in the calendar file
MaxRows   == 1      \* rows in the store before the first run
MaxNow    == 2      \* the clock runs over 1..MaxNow
MaxRuns   == 2      \* consecutive runs of main
MaxPages  == 3      \* pages in the chain the store lists its rows in

\* ------------------------------------------------------------------
\* Text helpers
\* ------------------------------------------------------------------
NoTime == 0          \* None for dtstart / dtend
E == << >>           \* the empty string

\* str.strip(): drop leading and trailing blanks
RECURSIVE LStrip(_)
LStrip(s) == IF s # E /\ Head(s) = " " THEN LStrip(Tail(s)) ELSE s

RECURSIVE RStrip(_)
RStrip(s) == IF s # E /\ s[Len(s)] = " " THEN RStrip(SubSeq(s, 1, Len(s) - 1)) ELSE s

Strip(s) == RStrip(LStrip(s))

Has(s, tok) == \E i \in DOMAIN s : s[i] = tok

\* index of the first occurrence of tok in s (s must contain it)
First(s, tok) == CHOOSE i \in DOMAIN s : s[i] = tok /\ \A j \in 1..(i - 1) : s[j] # tok

\* s.split(tok, 1) -> parts[0], parts[1]
Before(s, tok) == SubSeq(s, 1, First(s, tok) - 1)
After(s, tok)  == SubSeq(s, First(s, tok) + 1, Len(s))

\* "|".join(list)
RECURSIVE Join(_)
Join(list) ==
    IF list = << >> THEN E
    ELSE IF Len(list) = 1 THEN list[1]
    ELSE list[1] \o <<"|">> \o Join(Tail(list))

\* hashlib.sha1(...).hexdigest(): injective on the joined string, and never
\* the empty string (a digest has 40 hex digits)
sha1(s) == <<"sha1">> \o s

\* datetime.isoformat()
isoformat(t) == <<ToString(t)>>

YOTEI == <<"yotei">>
KEKKA == <<"kekka">>
KindTokens == {YOTEI, KEKKA}
CertaintyTokens == {<<"kakutei">>, <<"zantei">>, <<"mitei">>}

\* ------------------------------------------------------------------
\* split_vs / parse_score_from_summary / clean_score
\* ------------------------------------------------------------------
\* The token "vs" stands for a versus separator with blanks on both sides
\* (the first loop of split_vs); the inputs of the model hold no unspaced
\* "vs", so the regular-expression fallback never matches.
split_vs(s) ==
    IF s = E THEN <<E, E>>
    ELSE IF Has(s, "vs") THEN <<Strip(Before(s, "vs")), Strip(After(s, "vs"))>>
    ELSE <<E, E>>

\* score.replace(fullwidth space, " ").strip()
clean_score(score) ==
    Strip([i \in DOMAIN score |-> IF score[i] = "fwspace" THEN " " ELSE score[i]])

\* tokens matched by \d+(\(\d+\))?\s*-\s*\d+(\(\d+\))? (with the PK suffix)
ScoreTokens == {"4-0", "1-0"}

\* pattern 1 of parse_score_from_summary, "A 4 - 0 B": a score token with a
\* blank on each side and text before and after; the lazy first group takes
\* the first such token
ScorePos(s) ==
    {i \in 3..(Len(s) - 2) : s[i] \in ScoreTokens /\ s[i - 1] = " " /\ s[i + 1] = " "}

\* pattern 2, "A vs B/5-2", and pattern 3, "A vs B"
parse_score_vs(s, left, whole) ==
    IF Has(s, "/") /\ left[1] # E /\ left[2] # E
    THEN <<left[1], clean_score(Strip(After(s, "/"))), left[2]>>
    ELSE IF whole[1] # E /\ whole[2] # E THEN <<whole[1], E, whole[2]>>
    ELSE <<E, E, E>>

parse_score_stripped(s, pos) ==
    IF pos # {}
    THEN LET i == CHOOSE k \in pos : \A m \in pos : k <= m
         IN  <<Strip(SubSeq(s, 1, i - 2)), clean_score(<<s[i]>>),
               Strip(SubSeq(s, i + 2, Len(s)))>>
    ELSE parse_score_vs(s, IF Has(s, "/") THEN split_vs(Before(s, "/")) ELSE <<E, E>>,
                        split_vs(s))

parse_score_from_summary(summary) == parse_score_stripped(Strip(summary), ScorePos(Strip(summary)))

\* ------------------------------------------------------------------
\* parse_desc (sync_ics_to_notion.py)
\* ------------------------------------------------------------------
\* A DESCRIPTION is the sequence of its non-blank lines; a line is
\* [label, value]: the label the line starts with ("other" when it starts
\* with none of them) and the text after the label and its colon.
EmptyOut ==
    [type |-> E, tournament |-> E, round |-> E, kind |-> E, certainty |-> E,
     source |-> E, score |-> E, match |-> E, home |-> E, away |-> E]

\* the body of the loop over the lines, on <<out, legacy_round_candidate>>
parse_line(acc, line) ==
    LET out == acc[1]
        l == line.label
        v == Strip(line.value)
    IN  CASE l = "shubetsu" -> <<[out EXCEPT !.type = v], acc[2]>>
          [] l = "taikai"   -> <<[out EXCEPT !.tournament = v], acc[2]>>
          [] l \in {"round", "setsu_round_fw", "setsu_round_hw"}
                            -> <<[out EXCEPT !.round = v], acc[2]>>
          [] l = "kubun"    -> IF v \in KindTokens
                               THEN <<[out EXCEPT !.kind = v], acc[2]>>
                               ELSE <<out, v>>
          [] l = "kakudo"   -> <<[out EXCEPT !.certainty = v], acc[2]>>
          [] l = "shutten"  -> <<[out EXCEPT !.source = v], acc[2]>>
          [] l = "score"    -> <<[out EXCEPT !.score = v], acc[2]>>
          [] l = "taisen"   -> <<[out EXCEPT !.match = v], acc[2]>>
          [] l = "home"     -> <<[out EXCEPT !.home = v], acc[2]>>
          [] l = "away"     -> <<[out EXCEPT !.away = v], acc[2]>>
          [] OTHER          -> acc

RECURSIVE parse_lines(_, _)
parse_lines(lines, acc) ==
    IF lines = << >> THEN acc ELSE parse_lines(Tail(lines), parse_line(acc, Head(lines)))

\* the legacy kubun value becomes the round when no round was given
legacy_round(out, legacy_round_candidate) ==
    IF out.round = E /\ legacy_round_candidate # E
    THEN [out EXCEPT !.round = legacy_round_candidate]
    ELSE out

\* taisen (matchup) -> home / away, where they are still empty
match_to_home_away(out, ha) ==
    IF (out.home = E \/ out.away = E) /\ out.match # E
    THEN [out EXCEPT !.home = IF ha[1] # E /\ out.home = E THEN ha[1] ELSE @,
                     !.away = IF ha[2] # E /\ out.away = E THEN ha[2] ELSE @]
    ELSE out

parse_desc_tail(out) == match_to_home_away(out, split_vs(out.match))

parse_desc_acc(acc) == parse_desc_tail(legacy_round(acc[1], acc[2]))

parse_desc(desc) == parse_desc_acc(parse_lines(desc, <<EmptyOut, E>>))

\* ------------------------------------------------------------------
\* parse_desc (sync_ics_to_notion_FIXED.py): no home / away labels, the
\* kubun value is kept as it is, the matchup is not split
\* ------------------------------------------------------------------
EmptyOut_FIXED ==
    [type |-> E, tournament |-> E, round |-> E, kind |-> E, certainty |-> E,
     source |-> E, score |-> E, matchup |-> E]

\* the body of the loop over the lines
parse_line_FIXED(out, line) ==
    LET l == line.label
        v == Strip(line.value)
    IN  CASE l = "shubetsu" -> [out EXCEPT !.type = v]
          [] l = "taikai"   -> [out EXCEPT !.tournament = v]
          [] l \in {"round", "setsu_round_fw", "setsu_round_hw"}
                            -> [out EXCEPT !.round = v]
          [] l = "kubun"    -> [out EXCEPT !.kind = v]
          [] l = "kakudo"   -> [out EXCEPT !.certainty = v]
          [] l = "shutten"  -> [out EXCEPT !.source = v]
          [] l = "score"    -> [out EXCEPT !.score = v]
          [] l = "taisen"   -> [out EXCEPT !.matchup = v]
          [] OTHER          -> out

RECURSIVE parse_desc_FIXED_loop(_, _)
parse_desc_FIXED_loop(lines, out) ==
    IF lines = << >> THEN out
    ELSE parse_desc_FIXED_loop(Tail(lines), parse_line_FIXED(out, Head(lines)))

parse_desc_FIXED(desc) == parse_desc_FIXED_loop(desc, EmptyOut_FIXED)

\* ------------------------------------------------------------------
\* parse_ics_events: the normalised event of one VEVENT
\* ------------------------------------------------------------------
\* A VEVENT is [uid, summary, location, description, dtstart, dtend] with
\* dtstart / dtend already through parse_ics_datetime (NoTime when the
\* property is missing or does not parse).
NormEvent(ev) ==
    [ev EXCEPT !.uid = Strip(ev.uid), !.summary = Strip(ev.summary),
               !.location = Strip(ev.location)]

\* ------------------------------------------------------------------
\* build_item (sync_ics_to_notion.py)
\* ------------------------------------------------------------------
\* build_item raises ValueError when dtstart is None
Raises(ev) == ev.dtstart = NoTime

\* ResolveKind with the inference overriding the label
ResolveKind_Inferred(parsedKind, dtstart, now) ==
    IF dtstart > now THEN YOTEI ELSE KEKKA

\* kind: the parsed label when it is one of the two tokens, else by the
\* clock against dtstart
ResolveKind(parsedKind, dtstart, now) ==
    IF parsedKind \in KindTokens THEN parsedKind
    ELSE IF dtstart > now THEN YOTEI ELSE KEKKA

ResolveCertainty(parsedCertainty, location) ==
    IF parsedCertainty \in CertaintyTokens THEN parsedCertainty
    ELSE IF location = E \/ Has(location, "kaijo_fumei") THEN <<"mitei">>
    ELSE <<"zantei">>

\* Fingerprint with the score left out of the hashed fields
Fingerprint_NoScore(uid, summary, location, dtstart, dtend, tournament, round_name, kind, certainty, home, away, score, source) ==
    sha1(Join(<<uid, summary, location, isoformat(dtstart),
                (IF dtend # NoTime THEN isoformat(dtend) ELSE E),
                tournament, round_name, kind, certainty, home, away, source>>))

Fingerprint(uid, summary, location, dtstart, dtend, tournament, round_name, kind, certainty, home, away, score, source) ==
    sha1(Join(<<uid, summary, location, isoformat(dtstart),
                (IF dtend # NoTime THEN isoformat(dtend) ELSE E),
                tournament, round_name, kind, certainty, home, away, score, source>>))

\* tournament: the parsed label, else the second part of a slash-delimited
\* summary, else the summary
ResolveTournament(parsedTournament, summary) ==
    IF parsedTournament # E THEN parsedTournament
    ELSE IF Has(summary, "/")
         THEN Strip(IF Has(After(summary, "/"), "/")
                    THEN Before(After(summary, "/"), "/")
                    ELSE After(summary, "/"))
         ELSE summary

\* the card: the matchup (with the score when there is one), else the round,
\* else the summary
ResolveTitle(summary, round_name, home, away, score) ==
    IF home # E /\ away # E
    THEN IF score # E THEN home \o <<" ">> \o score \o <<" ">> \o away
         ELSE home \o <<"vs">> \o away
    ELSE IF round_name # E THEN round_name ELSE summary

\* the returned dict
build_item_record(ev, tournament, round_name, kind, certainty, home, away, score, source, title) ==
    [uid |-> ev.uid, summary |-> ev.summary, title |-> title, location |-> ev.location,
     dtstart |-> ev.dtstart, dtend |-> ev.dtend, tournament |-> tournament,
     round |-> round_name, kind |-> kind, certainty |-> certainty,
     home |-> home, away |-> away, score |-> score, source |-> source,
     type |-> E, matchup |-> E,
     fingerprint |-> Fingerprint(ev.uid, ev.summary, ev.location, ev.dtstart, ev.dtend,
                                 tournament, round_name, kind, certainty, home, away,
                                 score, source)]

build_item_fields(ev, now, parsed, home, away, score) ==
    build_item_record(ev,
        ResolveTournament(parsed.tournament, ev.summary),
        parsed.round,
        ResolveKind(parsed.kind, ev.dtstart, now),
        ResolveCertainty(parsed.certainty, ev.location),
        home, away, score, parsed.source,
        ResolveTitle(ev.summary, parsed.round, home, away, score))

\* home / away / score: the parsed labels, completed from the summary when
\* home or away is missing (fromSum is <<h2, sc2, a2>>)
build_item_summary(ev, now, parsed, fromSum) ==
    build_item_fields(ev, now, parsed,
        IF fromSum[1] # E /\ parsed.home = E THEN fromSum[1] ELSE parsed.home,
        IF fromSum[3] # E /\ parsed.away = E THEN fromSum[3] ELSE parsed.away,
        IF fromSum[2] # E /\ parsed.score = E THEN fromSum[2] ELSE parsed.score)

build_item_parsed(ev, now, parsed) ==
    build_item_summary(ev, now, parsed,
        IF parsed.home # E /\ parsed.away # E THEN <<E, E, E>>
        ELSE parse_score_from_summary(ev.summary))

\* the item of an event whose dtstart is present, resolved at time now
build_item(ev, now) == build_item_parsed(ev, now, parse_desc(ev.description))

\* ------------------------------------------------------------------
\* build_item (sync_ics_to_notion_FIXED.py); card_title is the title field
\* ------------------------------------------------------------------
Fingerprint_FIXED(uid, card_title, summary, location, dtstart, dtend, tournament, round_name, kind, certainty, source, score, matchup, type) ==
    sha1(Join(<<uid, card_title, summary, location, isoformat(dtstart),
                (IF dtend # NoTime THEN isoformat(dtend) ELSE E),
                tournament, round_name, kind, certainty, source, score, matchup, type>>))

\* tournament: the parsed label, else what follows the first slash of the
\* summary, else empty
ResolveTournament_FIXED(parsedTournament, summary) ==
    IF parsedTournament # E THEN parsedTournament
    ELSE IF Has(summary, "/") THEN Strip(After(summary, "/")) ELSE E

\* the card: the matchup (with the score for a result), else the summary
ResolveTitle_FIXED(summary, matchup, kind, score) ==
    IF matchup # E /\ kind = KEKKA /\ score # E THEN matchup \o <<"/">> \o score
    ELSE IF matchup # E THEN matchup ELSE summary

build_item_FIXED_record(uid, summary, location, dtstart, dtend, parsed, tournament, kind, certainty, card_title) ==
    [uid |-> uid, summary |-> summary, title |-> card_title, location |-> location,
     dtstart |-> dtstart, dtend |-> dtend, tournament |-> tournament,
     round |-> parsed.round, kind |-> kind, certainty |-> certainty,
     home |-> E, away |-> E, score |-> parsed.score, source |-> parsed.source,
     type |-> parsed.type, matchup |-> parsed.matchup,
     fingerprint |-> Fingerprint_FIXED(uid, card_title, summary, location, dtstart,
                                       dtend, tournament, parsed.round, kind, certainty,
                                       parsed.source, parsed.score, parsed.matchup,
                                       parsed.type)]

build_item_FIXED_kind(uid, summary, location, dtstart, dtend, parsed, kind) ==
    build_item_FIXED_record(uid, summary, location, dtstart, dtend, parsed,
        ResolveTournament_FIXED(parsed.tournament, summary),
        kind,
        ResolveCertainty(parsed.certainty, location),
        ResolveTitle_FIXED(summary, parsed.matchup, kind, parsed.score))

build_item_FIXED_parsed(ev, now, parsed) ==
    build_item_FIXED_kind(Strip(ev.uid), Strip(ev.summary), Strip(ev.location),
                          ev.dtstart, ev.dtend, parsed,
                          ResolveKind(parsed.kind, ev.dtstart, now))

build_item_FIXED(ev, now) == build_item_FIXED_parsed(ev, now, parse_desc_FIXED(ev.description))

\* ------------------------------------------------------------------
\* build_notion_props / notion_props: the write payload
\* ------------------------------------------------------------------
\* A payload is a function from the property names it carries to the text
\* sent for each (E for an empty rich_text or a null date).
safe_title(t) == IF t = E THEN <<"(no title)">> ELSE t

PropValue(item, k, now) ==
    CASE k = "card"        -> item.title
      [] k = "kaishi"      -> isoformat(item.dtstart)
      [] k = "shuryo"      -> IF item.dtend # NoTime THEN isoformat(item.dtend) ELSE E
      [] k = "taikai"      -> item.tournament
      [] k \in {"setsu_round_fw", "setsu_round_hw", "round"} -> item.round
      [] k = "kaijo"       -> item.location
      [] k = "kubun"       -> item.kind
      [] k = "kakudo"      -> item.certainty
      [] k = "koshinbi"    -> isoformat(now)
      [] k = "UID"         -> item.uid
      [] k = "shutten"     -> item.source
      [] k = "fingerprint" -> item.fingerprint
      [] k = "home"        -> item.home
      [] k = "away"        -> item.away
      [] k = "score"       -> item.score
      [] k = "shubetsu"    -> item.type
      [] k = "taisen"      -> item.matchup

\* the properties build_notion_props always sends
BaseProps ==
    {"card", "kaishi", "shuryo", "taikai", "setsu_round_fw", "kaijo", "kubun",
     "kakudo", "koshinbi", "UID", "shutten", "fingerprint"}

\* the additional columns, sent only when the database has them
ExtraProps == {"home", "away", "score"}

\* build_notion_props with the fingerprint property forgotten
build_notion_props_keys_NoFp(item, db_prop_names) ==
    (BaseProps \ {"fingerprint"}) \cup (ExtraProps \cap db_prop_names)

build_notion_props_keys(item, db_prop_names) ==
    BaseProps \cup (ExtraProps \cap db_prop_names)

build_notion_props(item, db_prop_names, now) ==
    [k \in build_notion_props_keys(item, db_prop_names) |->
        IF k = "card" THEN safe_title(item.title) ELSE PropValue(item, k, now)]

\* choose_prop_key(db_props, [setsu_round_fw, setsu_round_hw, round])
choose_prop_key(db_props, candidates) ==
    IF \E n \in DOMAIN candidates : candidates[n] \in db_props
    THEN {candidates[CHOOSE n \in DOMAIN candidates :
                        /\ candidates[n] \in db_props
                        /\ \A m \in 1..(n - 1) : candidates[m] \notin db_props]}
    ELSE {}

\* the properties notion_props sends whatever the schema is
RequiredProps_FIXED == {"card", "kaishi", "shuryo", "UID"}

\* notion_props sending the score whenever the record has one
notion_props_keys_ScoreAlways(item, db_props) ==
    RequiredProps_FIXED
    \cup ({"taikai", "kaijo", "kubun", "kakudo", "koshinbi", "shutten", "fingerprint"}
            \cap db_props)
    \cup choose_prop_key(db_props, <<"setsu_round_fw", "setsu_round_hw", "round">>)
    \cup (IF "shubetsu" \in db_props /\ item.type # E THEN {"shubetsu"} ELSE {})
    \cup (IF "taisen" \in db_props /\ item.matchup # E THEN {"taisen"} ELSE {})
    \cup (IF item.score # E THEN {"score"} ELSE {})

\* notion_props with the fingerprint property forgotten
notion_props_keys_NoFp(item, db_props) ==
    RequiredProps_FIXED
    \cup ({"taikai", "kaijo", "kubun", "kakudo", "koshinbi", "shutten"} \cap db_props)
    \cup choose_prop_key(db_props, <<"setsu_round_fw", "setsu_round_hw", "round">>)
    \cup (IF "shubetsu" \in db_props /\ item.type # E THEN {"shubetsu"} ELSE {})
    \cup (IF "taisen" \in db_props /\ item.matchup # E THEN {"taisen"} ELSE {})
    \cup (IF "score" \in db_props /\ item.score # E THEN {"score"} ELSE {})

notion_props_keys(item, db_props) ==
    RequiredProps_FIXED
    \cup ({"taikai", "kaijo", "kubun", "kakudo", "koshinbi", "shutten", "fingerprint"}
            \cap db_props)
    \cup choose_prop_key(db_props, <<"setsu_round_fw", "setsu_round_hw", "round">>)
    \cup (IF "shubetsu" \in db_props /\ item.type # E THEN {"shubetsu"} ELSE {})
    \cup (IF "taisen" \in db_props /\ item.matchup # E THEN {"taisen"} ELSE {})
    \cup (IF "score" \in db_props /\ item.score # E THEN {"score"} ELSE {})

notion_props(item, db_props, now) ==
    [k \in notion_props_keys(item, db_props) |-> PropValue(item, k, now)]

\* ------------------------------------------------------------------
\* The external store (Notion database)
\* ------------------------------------------------------------------
\* A row is [id, uid, fp]: the page id and the text of its UID and
\* fingerprint properties (E when the property is empty or missing).
\* The store rejects a write that names a property the database lacks.
StoreAccepts(payload, schema) == DOMAIN payload \subseteq schema

page_uid_from_props(page) == Strip(page.uid)
page_fp_from_props(page)  == Strip(page.fp)

PayloadFp(payload, old) ==
    IF "fingerprint" \in DOMAIN payload THEN payload["fingerprint"] ELSE old

\* pages.create: a new page at the end of the listing
StoreCreate(rows, payload) ==
    Append(rows, [id |-> Len(rows) + 1, uid |-> payload["UID"], fp |-> PayloadFp(payload, E)])

\* pages.update: the properties of the payload replace the page's
StoreUpdate(rows, pageId, payload) ==
    [n \in DOMAIN rows |->
        IF rows[n].id = pageId
        THEN [rows[n] EXCEPT !.uid = payload["UID"], !.fp = PayloadFp(payload, @)]
        ELSE rows[n]]

\* by_uid of main: the last listed page of each non-empty UID
ByUidDomain(pages) ==
    {page_uid_from_props(pages[n]) : n \in DOMAIN pages} \ {E}

ByUid(pages, uid) ==
    pages[CHOOSE n \in DOMAIN pages :
            /\ page_uid_from_props(pages[n]) = uid
            /\ \A m \in (n + 1)..Len(pages) : page_uid_from_props(pages[m]) # uid]

\* ------------------------------------------------------------------
\* State of a sequence of runs of main
\* ------------------------------------------------------------------
VARIABLES
    variant,    \* "main" (sync_ics_to_notion.py) or "FIXED" (..._FIXED.py)
    env,        \* what the run read of its environment, [token, dbid, file]:
                \* NOTION_TOKEN / NOTION_DATABASE_ID set, ICS_PATH exists
    calendar,   \* the VEVENTs of the calendar file
    db_props,   \* the property names of the database
    store,      \* the rows of the database, in listing order
    store0,     \* the rows before the first run
    begun,      \* the rows when the current run started
    now,        \* the clock (now_jst)
    run,        \* number of the current run
    pc,         \* position of main
    i,          \* index of the next VEVENT to resolve
    items,      \* the resolved items
    pages,      \* the rows fetched by fetch_all_pages
    j,          \* index of the next item of the write loop
    ops,        \* the decisions of this run: [op, idx, uid, page, ok]
    calls,      \* the store operations this run has issued
    props,      \* the last payload built
    prev,       \* the previous run: [pc, ops, items, before]
    listing,    \* the responses of the store to databases.query, as a chain
                \* of pages [results, has_more, next_cursor]
    cursor,     \* cursor of fetch_all_pages
    requests    \* databases.query requests issued by fetch_all_pages

vars == <<variant, env, calendar, db_props, store, store0, begun, now, run, pc, i, items,
          pages, j, ops, calls, props, prev, listing, cursor, requests>>

Variants == {"main", "FIXED"}

UIDs == {<<"u1">>, <<"u2">>}

KubunLine(v) == [label |-> "kubun", value |-> v]

\* the VEVENTs the calendar file is drawn from: with and without UID, with
\* and without DTSTART, and one with a valid kubun line
CalEvents ==
    [uid : UIDs \cup {E}, summary : {<<"s">>}, location : {E},
     description : {<< >>}, dtstart : {NoTime, 2}, dtend : {NoTime}]
    \cup
    [uid : {<<"u1">>}, summary : {<<"s">>}, location : {E},
     description : {<<KubunLine(KEKKA)>>}, dtstart : {2}, dtend : {NoTime}]

SeqsUpTo(S, n) == UNION {[1..m -> S] : m \in 0..n}

AllPropNames ==
    BaseProps \cup ExtraProps \cup {"shubetsu", "taisen"}

\* the schemas of the runs: every property, or every property but fingerprint
Schemas == {AllPropNames, AllPropNames \ {"fingerprint"}}

\* the rows a store may hold before the first run
RowValues == {[uid |-> <<"u1">>, fp |-> E], [uid |-> <<"u1">>, fp |-> <<"old">>],
              [uid |-> E, fp |-> E]}

InitRows(n) ==
    {[k \in 1..n |-> [id |-> k, uid |-> r[k].uid, fp |-> r[k].fp]] : r \in [1..n -> RowValues]}

Envs ==
    {[token |-> TRUE,  dbid |-> TRUE,  file |-> TRUE],
     [token |-> FALSE, dbid |-> TRUE,  file |-> TRUE],
     [token |-> TRUE,  dbid |-> FALSE, file |-> TRUE],
     [token |-> TRUE,  dbid |-> TRUE,  file |-> FALSE]}

\* before a run has read its environment, env holds the complete one
FullEnv == [token |-> TRUE, dbid |-> TRUE, file |-> TRUE]

NoProps == << >>

\* cursor = None: no start_cursor is passed
NoCursor == 0

\* outside fetch_all_pages studied page by page, the pagination state is idle
FetchIdle == listing = << >> /\ cursor = NoCursor /\ requests = 0
NoPrev  == [pc |-> "none", ops |-> << >>, items |-> << >>, before |-> << >>]

RunStart ==
    /\ pc = "start" /\ i = 0 /\ j = 0
    /\ items = << >> /\ pages = << >> /\ ops = << >>
    /\ calls = {} /\ props = NoProps

Init ==
    /\ variant \in Variants
    /\ env = FullEnv
    /\ calendar \in SeqsUpTo(CalEvents, MaxEvents)
    /\ db_props \in Schemas
    /\ store \in UNION {InitRows(n) : n \in 0..MaxRows}
    /\ store0 = store
    /\ begun = store
    /\ now = 1
    /\ run = 1
    /\ prev = NoPrev
    /\ FetchIdle
    /\ RunStart

\* ------------------------------------------------------------------
\* main, step by step
\* ------------------------------------------------------------------
Running == pc \in {"build", "write"}
Ended   == pc \in {"done", "exit2", "crashed", "killed"}

\* the exit code of the process: 0 from return 0, 2 from return 2, 1 when
\* an exception leaves main (traceback)
ExitCode == CASE pc = "done" -> 0 [] pc = "exit2" -> 2 [] pc = "crashed" -> 1 [] OTHER -> -1

\* ConfigError with the schema retrieved before the configuration is tested
ConfigError_AfterRetrieve ==
    /\ pc = "start"
    /\ \E e \in Envs :
          /\ (~e.token \/ ~e.dbid) \/ ~e.file
          /\ env' = e
    /\ calls' = calls \cup {"retrieve"}
    /\ pc' = "exit2"
    /\ UNCHANGED <<listing, cursor, requests, variant, calendar, db_props, store, store0, begun, now, run, i, items,
                   pages, j, ops, props, prev>>

\* missing token / database id, or missing calendar file: return 2
ConfigError ==
    /\ pc = "start"
    /\ \E e \in Envs :
          /\ (~e.token \/ ~e.dbid) \/ ~e.file
          /\ env' = e
    /\ pc' = "exit2"
    /\ UNCHANGED <<listing, cursor, requests, variant, calendar, db_props, store, store0, begun, now, run, i, items,
                   pages, j, ops, calls, props, prev>>

\* Client(...), then the schema retrieval (fetch_db_prop_names /
\* get_db_property_names) and the parse of the calendar file
Start ==
    /\ pc = "start"
    /\ \E e \in Envs :
          /\ e.token /\ e.dbid /\ e.file
          /\ env' = e
    /\ calls' = calls \cup {"retrieve"}
    /\ pc' = "build"
    /\ i' = 1
    /\ UNCHANGED <<listing, cursor, requests, variant, calendar, db_props, store, store0, begun, now, run, items,
                   pages, j, ops, props, prev>>

\* what the resolution loop does with one VEVENT: "drop", "raise" or "item"
BuildOutcome(v, ev) ==
    IF v = "main" /\ NormEvent(ev).uid = E THEN "drop"
    ELSE IF Raises(ev) THEN "raise"
    ELSE "item"

BuildItemOf(v, ev, t) ==
    IF v = "main" THEN build_item(NormEvent(ev), t) ELSE build_item_FIXED(ev, t)

\* one turn of the loop that fills items
BuildStep ==
    /\ pc = "build"
    /\ i <= Len(calendar)
    /\ LET out == BuildOutcome(variant, calendar[i]) IN
        /\ pc' = IF out = "raise" THEN "crashed" ELSE pc
        /\ i' = IF out = "raise" THEN i ELSE i + 1
        /\ items' = IF out = "item"
                     THEN Append(items, BuildItemOf(variant, calendar[i], now))
                     ELSE items
    /\ UNCHANGED <<listing, cursor, requests, variant, env, calendar, db_props, store, store0, begun, now, run,
                   pages, j, ops, calls, props, prev>>

\* fetch_all_pages: the listing of the store, read once before the writes
Fetch ==
    /\ pc = "build"
    /\ i > Len(calendar)
    /\ pages' = store
    /\ calls' = calls \cup {"query"}
    /\ pc' = "write"
    /\ j' = 1
    /\ UNCHANGED <<listing, cursor, requests, variant, env, calendar, db_props, store, store0, begun, now, run, i, items,
                   ops, props, prev>>

Payload(v, it, schema, t) ==
    IF v = "main" THEN build_notion_props(it, schema, t) ELSE notion_props(it, schema, t)

\* Decide with the fingerprint comparison lost: a known row is always skipped
Decide_SkipKnown(v, it, fetched) ==
    IF it.uid \notin ByUidDomain(fetched) THEN "create" ELSE "skip"

\* the branch the write loop takes for one item
Decide(v, it, fetched) ==
    IF it.uid \notin ByUidDomain(fetched) THEN "create"
    ELSE LET old_fp == page_fp_from_props(ByUid(fetched, it.uid)) IN
         IF v = "main"
         THEN IF old_fp = it.fingerprint THEN "skip" ELSE "update"
         ELSE IF old_fp # E /\ old_fp = it.fingerprint THEN "skip" ELSE "update"

\* WriteCall archiving the stale page on update instead of rewriting it
WriteCall_Archive(d, rows, pageId, payload) ==
    IF d = "create" THEN StoreCreate(rows, payload)
    ELSE SelectSeq(rows, LAMBDA r : r.id # pageId)

\* the store call of a create / update decision: pages.create for a create,
\* pages.update of the page found under the UID for an update
WriteCall(d, rows, pageId, payload) ==
    IF d = "create" THEN StoreCreate(rows, payload) ELSE StoreUpdate(rows, pageId, payload)

\* the FIXED loop passes over an item with an empty UID
PassOver(v, it) == v = "FIXED" /\ it.uid = E

\* one turn of the write loop; a create or update the store rejects raises
\* out of main
WriteStep ==
    /\ pc = "write"
    /\ j <= Len(items)
    /\ LET it == items[j] IN
        IF PassOver(variant, it)
        THEN /\ j' = j + 1
             /\ UNCHANGED <<pc, store, ops, calls, props>>
        ELSE LET payload == Payload(variant, it, db_props, now)
                 d       == Decide(variant, it, pages)
                 page    == IF d = "create" THEN 0 ELSE ByUid(pages, it.uid).id
             IN  /\ props' = payload
                 /\ IF d = "skip"
                    THEN /\ ops' = Append(ops, [op |-> d, idx |-> j, uid |-> it.uid,
                                                page |-> page, ok |-> TRUE])
                         /\ j' = j + 1
                         /\ UNCHANGED <<pc, store, calls>>
                    ELSE \E ok \in BOOLEAN :
                         /\ ok => StoreAccepts(payload, db_props)
                         /\ ops' = Append(ops, [op |-> d, idx |-> j, uid |-> it.uid,
                                                page |-> page, ok |-> ok])
                         /\ calls' = calls \cup {d}
                         /\ store' = IF ~ok THEN store
                                      ELSE WriteCall(d, store, page, payload)
                         /\ pc' = IF ok THEN pc ELSE "crashed"
                         /\ j' = IF ok THEN j + 1 ELSE j
    /\ UNCHANGED <<listing, cursor, requests, variant, env, calendar, db_props, store0, begun, now, run, i, items,
                   pages, prev>>

\* the summary line and return 0
Finish ==
    /\ pc = "write"
    /\ j > Len(items)
    /\ pc' = "done"
    /\ UNCHANGED <<listing, cursor, requests, variant, env, calendar, db_props, store, store0, begun, now, run, i, items,
                   pages, j, ops, calls, props, prev>>

\* the clock advances
Tick ==
    /\ now < MaxNow
    /\ now' = now + 1
    /\ UNCHANGED <<listing, cursor, requests, variant, env, calendar, db_props, store, store0, begun, run, pc, i, items,
                   pages, j, ops, calls, props, prev>>

\* the process is interrupted
Kill ==
    /\ Running
    /\ pc' = "killed"
    /\ UNCHANGED <<listing, cursor, requests, variant, env, calendar, db_props, store, store0, begun, now, run, i, items,
                   pages, j, ops, calls, props, prev>>

\* main is run again on the same calendar file
Restart ==
    /\ Ended
    /\ run < MaxRuns
    /\ run' = run + 1
    /\ prev' = [pc |-> pc, ops |-> ops, items |-> items, before |-> begun]
    /\ pc' = "start" /\ i' = 0 /\ j' = 0
    /\ items' = << >> /\ pages' = << >> /\ ops' = << >>
    /\ calls' = {} /\ props' = NoProps
    /\ begun' = store
    /\ env' = FullEnv
    /\ UNCHANGED <<listing, cursor, requests, variant, calendar, db_props, store, store0, now>>

Next ==
    \/ ConfigError
    \/ Start
    \/ BuildStep
    \/ Fetch
    \/ WriteStep
    \/ Finish
    \/ Tick
    \/ Kill
    \/ Restart

Spec == Init /\ [][Next]_vars

\* ------------------------------------------------------------------
\* Resolution and projection of single events (build_item and
\* build_notion_props / notion_props as functions of their inputs)
\* ------------------------------------------------------------------
Line(l, v) == [label |-> l, value |-> v]

\* the DESCRIPTIONs of the events resolved one by one
ItemDescs ==
    {<< >>,
     <<Line("kubun", KEKKA)>>,
     <<Line("kubun", YOTEI)>>,
     <<Line("kubun", <<"yosen">>)>>,
     <<Line("round", <<"R1">>), Line("kubun", <<"yosen">>)>>,
     <<Line("score", <<"1-0">>)>>,
     <<Line("kubun", YOTEI), Line("score", <<"1-0">>)>>,
     <<Line("score", <<"|">>)>>,
     <<Line("shutten", <<"|">>)>>,
     <<Line("taikai", <<"T">>), Line("taisen", <<"H", "vs", "W">>)>>}

ItemEvents ==
    [uid : {<<"u1">>},
     summary : {<<"A", "vs", "B">>, <<"A", " ", "4-0", " ", "B">>, <<"P", "/", "T">>},
     location : {E, <<"L">>},
     description : ItemDescs,
     dtstart : {2}, dtend : {NoTime, 3}]

\* schemas with and without some of the properties, and with the halfwidth
\* spelling of the round property
ItemSchemas ==
    {(AllPropNames \ R) \cup A :
        R \in SUBSET {"score", "taikai", "UID", "setsu_round_fw"},
        A \in SUBSET {"setsu_round_hw"}}

\* two events under the full schema, or one event under any schema
InitItem ==
    /\ variant \in Variants
    /\ env = FullEnv
    /\ \/ calendar \in [1..2 -> ItemEvents] /\ db_props = AllPropNames
       \/ calendar \in [1..1 -> ItemEvents] /\ db_props \in ItemSchemas
    /\ store = << >> /\ store0 = << >> /\ begun = << >>
    /\ now \in 1..MaxNow
    /\ run = 1
    /\ prev = NoPrev
    /\ pc = "build" /\ i = 1 /\ j = 0
    /\ items = << >> /\ pages = << >> /\ ops = << >>
    /\ calls = {} /\ props = NoProps
    /\ FetchIdle

\* the payload of the next resolved item is built (and not sent)
ProjectStep ==
    /\ pc = "build"
    /\ i > Len(calendar)
    /\ j < Len(items)
    /\ j' = j + 1
    /\ props' = Payload(variant, items[j + 1], db_props, now)
    /\ UNCHANGED <<listing, cursor, requests, variant, env, calendar, db_props, store, store0, begun, now, run,
                   pc, i, items, pages, ops, calls, prev>>

NextItem == BuildStep \/ ProjectStep

SpecItem == InitItem /\ [][NextItem]_vars

\* ------------------------------------------------------------------
\* fetch_all_pages, request by request, against a store that lists its
\* rows in a chain of pages and answers each request with any has_more
\* and next_cursor
\* ------------------------------------------------------------------
\* the row listed on page k
Row(k) == [id |-> k, uid |-> <<"u1">>, fp |-> E]

\* the chains of K pages: a page lists one row or none, has_more is set
\* or not, next_cursor names the next page of the chain or is None
ChainsOf(K) ==
    {[k \in 1..K |-> [results     |-> IF k \in full THEN <<Row(k)>> ELSE << >>,
                      has_more    |-> k \in more,
                      next_cursor |-> IF k \in next THEN k + 1 ELSE NoCursor]] :
        full \in SUBSET (1..K), more \in SUBSET (1..K), next \in SUBSET (1..(K - 1))}

ListingChains == UNION {ChainsOf(K) : K \in 1..MaxPages}

\* the rows of the store: the rows of the pages of the chain, in page order
RECURSIVE RowsOf(_)
RowsOf(chain) ==
    IF chain = << >> THEN << >> ELSE Head(chain).results \o RowsOf(Tail(chain))

\* notion.databases.query: the first page without start_cursor, the page
\* the cursor names with one
QueryResponse(chain, c) == IF c = NoCursor THEN chain[1] ELSE chain[c]

\* the loop has no bound of its own: past MaxRequests requests the model
\* stops counting and collecting, so that a loop that never ends stays finite
MaxRequests == MaxPages + 2

InitFetch ==
    /\ variant \in Variants
    /\ env = FullEnv
    /\ calendar = << >>
    /\ db_props = AllPropNames
    /\ listing \in ListingChains
    /\ store = RowsOf(listing) /\ store0 = store /\ begun = store
    /\ now = 1
    /\ run = 1
    /\ prev = NoPrev
    /\ pc = "fetch" /\ i = 0 /\ j = 0
    /\ items = << >> /\ pages = << >> /\ ops = << >>
    /\ calls = {} /\ props = NoProps
    /\ cursor = NoCursor /\ requests = 0

\* one turn of the while True loop: the request, pages.extend, the new
\* cursor, and the break when has_more is not set
FetchPage ==
    /\ pc = "fetch"
    /\ LET resp == QueryResponse(listing, cursor) IN
        /\ calls' = calls \cup {"query"}
        /\ requests' = IF requests < MaxRequests THEN requests + 1 ELSE requests
        /\ pages' = IF requests < MaxRequests THEN pages \o resp.results ELSE pages
        /\ cursor' = resp.next_cursor
        /\ pc' = IF resp.has_more THEN "fetch" ELSE "fetched"
    /\ UNCHANGED <<variant, env, calendar, db_props, store, store0, begun, now, run, i,
                   items, j, ops, props, prev, listing>>

NextFetch == FetchPage

\* the loop is synchronous code: it takes its next turn
SpecFetch == InitFetch /\ [][NextFetch]_vars /\ WF_vars(FetchPage)

\* ==================================================================
\* Properties
\* ==================================================================
\* the fetched rows that carry a UID, by position in the listing
RowsWith(fetched, uid) == {n \in DOMAIN fetched : Strip(fetched[n].uid) = uid}

\* the row carrying a UID: the one by_uid keeps, the last listed
TheRow(fetched, uid) ==
    fetched[CHOOSE n \in RowsWith(fetched, uid) : \A m \in RowsWith(fetched, uid) : m <= n]

\* the items of the write loop that are reconciled (non-empty UID)
Reconciled(n) == {m \in 1..n : items[m].uid # E}

\* C1: in the reconciliation loop every resolved record gets exactly one
\* decision: create iff no fetched row carries its UID; update of the row
\* carrying the UID iff there is one and its stored fingerprint differs from
\* the record's or is empty; skip iff there is one and its stored
\* fingerprint equals the record's.
C1_OneDecisionPerRecord ==
    /\ \A k \in DOMAIN ops :
          LET o   == ops[k]
              it  == items[o.idx]
              has == RowsWith(pages, it.uid) # {}
          IN  /\ o.op \in {"create", "update", "skip"}
              /\ (o.op = "create") <=> ~has
              /\ (o.op = "update") <=>
                    (has /\ (TheRow(pages, it.uid).fp = E
                              \/ TheRow(pages, it.uid).fp # it.fingerprint))
              /\ (o.op = "skip") <=> (has /\ TheRow(pages, it.uid).fp = it.fingerprint)
              /\ (o.op = "update") => (o.page = TheRow(pages, it.uid).id)
    /\ \A k, q \in DOMAIN ops : ops[k].idx = ops[q].idx => k = q
    /\ pc = "done" => {ops[k].idx : k \in DOMAIN ops} = Reconciled(Len(items))

\* C1 witness: a completed run that skipped one record and updated another,
\* after a run that created a row
C1_Witness ==
    /\ pc = "done"
    /\ \E k \in DOMAIN ops : ops[k].op = "skip"
    /\ \E k \in DOMAIN ops : ops[k].op = "update"
    /\ \E k \in DOMAIN prev.ops : prev.ops[k].op = "create"

\* the events of the calendar file that have a UID and a start
Resolvable == {n \in DOMAIN calendar : Strip(calendar[n].uid) # E /\ ~Raises(calendar[n])}

\* C3 (as claimed): when build_item fails for an event without a start, only
\* that event is dropped: the run ends with exit code 0 and every other
\* event with a UID has been reconciled.
C3_MissingStartDropsOneEvent ==
    (/\ pc \in {"done", "crashed"}
     /\ \A k \in DOMAIN ops : ops[k].ok
     /\ \E n \in DOMAIN calendar : Strip(calendar[n].uid) # E /\ Raises(calendar[n]))
    => (ExitCode = 0 /\ Len(ops) = Cardinality(Resolvable))

\* C4 (as claimed): when the store rejects a create or update, the batch
\* continues: the exception does not end the run.
C4_RejectedWriteContinues ==
    \A k \in DOMAIN ops : ~ops[k].ok => pc # "crashed"

\* C5: a run never deletes a row: every page id present before the first run
\* is still in the store, whatever the calendar file holds; and the only
\* store operations issued are retrieve, query, create and update.
C5_NoRowDeleted ==
    /\ \A n \in DOMAIN store0 : \E m \in DOMAIN store : store[m].id = store0[n].id
    /\ calls \subseteq {"retrieve", "query", "create", "update"}
    /\ Len(store) >= Len(store0)

\* C5 witness: a completed run that updated a row and left alone a row
\* whose UID is in no event of the calendar file
C5_Witness ==
    /\ pc = "done"
    /\ \E k \in DOMAIN ops : ops[k].op = "update"
    /\ \E n \in DOMAIN store0 :
          /\ \A m \in DOMAIN calendar : Strip(calendar[m].uid) # Strip(store0[n].uid)
          /\ \E m \in DOMAIN store : store[m] = store0[n]

\* C8 (as claimed): an event with an empty UID is dropped silently whatever
\* its other properties: it is never reconciled and it does not stop the
\* resolution of the other events.
C8_EmptyUidDroppedSilently ==
    /\ \A k \in DOMAIN ops : ops[k].uid # E
    /\ ~(/\ pc = "crashed" /\ j = 0
          /\ i \in DOMAIN calendar
          /\ Strip(calendar[i].uid) = E)

\* two runs in a row, both to completion
TwoRunsDone == run > 1 /\ pc = "done" /\ prev.pc = "done"

AllSkipped == \A k \in DOMAIN ops : ops[k].op = "skip"

\* C2 (as claimed): when main runs to completion twice in a row on the
\* unchanged calendar file, the second run issues no create and no update.
C2_SecondRunAllSkip == TwoRunsDone => AllSkipped

\* both runs resolved every event to the same record
SameResolution == items = prev.items

\* events that share a UID resolve to the same fingerprint
SameUidSameFp ==
    \A m, n \in DOMAIN items :
        items[m].uid = items[n].uid => items[m].fingerprint = items[n].fingerprint

\* the write payload carries the fingerprint
FpStored == variant = "FIXED" => "fingerprint" \in db_props

\* C2 (amended): the second of two completed runs on the unchanged calendar
\* file issues no create and no update, provided both runs resolved every
\* event to the same record (the clock did not pass the start of an event
\* without a valid kind label in between), events sharing a UID resolve to
\* the same fingerprint, and (FIXED) the database has a fingerprint property.
C2_SecondRunAllSkipAmended ==
    (TwoRunsDone /\ SameResolution /\ SameUidSameFp /\ FpStored) => AllSkipped

\* C2 witness: a second completed run that skipped every record after a
\* first run that created one row and updated another
C2_Witness ==
    /\ TwoRunsDone /\ SameResolution /\ SameUidSameFp /\ FpStored
    /\ Len(ops) = 2 /\ AllSkipped
    /\ \E k \in DOMAIN prev.ops : prev.ops[k].op = "create"
    /\ \E k \in DOMAIN prev.ops : prev.ops[k].op = "update"

\* the records whose write completed in the previous run
CompletedIdx ==
    {prev.ops[k].idx : k \in {q \in DOMAIN prev.ops : prev.ops[q].op # "skip" /\ prev.ops[q].ok}}

\* a record needed a write against the rows the previous run started from
NeedsWrite(it, rows) ==
    \/ RowsWith(rows, it.uid) = {}
    \/ TheRow(rows, it.uid).fp # it.fingerprint

OpOf(m) == {ops[k].op : k \in {q \in DOMAIN ops : ops[q].idx = m}}

\* an interrupted run followed by a completed one
Recovered == run > 1 /\ pc = "done" /\ prev.pc = "killed"

RecoveryHolds ==
    /\ \A m \in CompletedIdx : OpOf(m) = {"skip"}
    /\ \A m \in Reconciled(Len(items)) \ CompletedIdx :
          NeedsWrite(items[m], prev.before) => OpOf(m) \subseteq {"create", "update"}

\* C6 (as claimed): after an interrupted run, the next completed run on the
\* same calendar file skips every record whose write had completed and
\* writes every record whose write had not.
C6_CrashRecovery == Recovered => RecoveryHolds

\* the interrupted run resolved its events as the next run did
ResolvedAlike ==
    /\ Len(prev.items) <= Len(items)
    /\ \A m \in DOMAIN prev.items : prev.items[m] = items[m]

DistinctUids == \A m, n \in DOMAIN items : items[m].uid = items[n].uid => m = n

\* C6 (amended): the same, provided the two runs resolved the events to the
\* same records (the clock did not pass the start of an event without a
\* valid kind label in between), no two events share a UID, and (FIXED) the
\* database has a fingerprint property.
C6_CrashRecoveryAmended ==
    (Recovered /\ ResolvedAlike /\ DistinctUids /\ FpStored) => RecoveryHolds

\* C6 witness: a run interrupted after one of its two writes, then a run
\* that skipped the written record and wrote the other
C6_Witness ==
    /\ Recovered /\ ResolvedAlike /\ DistinctUids /\ FpStored
    /\ Cardinality(CompletedIdx) = 1
    /\ \E m \in CompletedIdx : OpOf(m) = {"skip"}
    /\ \E m \in Reconciled(Len(items)) \ CompletedIdx : OpOf(m) \subseteq {"create", "update"}
    /\ Len(ops) = 2

\* ------------------------------------------------------------------
\* Properties of the resolution and of the projection (SpecItem)
\* ------------------------------------------------------------------
\* C7 (as claimed): the write payload contains a property only if the
\* schema reports it.
C7_PayloadWithinSchema == \A k \in DOMAIN props : k \in db_props

\* the properties each revision sends without consulting the schema
C7_AlwaysSent ==
    IF variant = "main"
    THEN {"card", "kaishi", "shuryo", "taikai", "setsu_round_fw", "kaijo", "kubun",
          "kakudo", "koshinbi", "UID", "shutten", "fingerprint"}
    ELSE {"card", "kaishi", "shuryo", "UID"}

\* C7 (amended): a property outside the always-sent ones (home, away and
\* score in sync_ics_to_notion.py; all but card, kaishi, shuryo and UID in
\* the FIXED revision) is in the payload only if the schema reports it, and
\* is then left out entirely even when the record's value is not empty; the
\* always-sent properties are in every payload.
C7_OptionalWithinSchema ==
    props # NoProps =>
        /\ \A k \in DOMAIN props : k \in db_props \/ k \in C7_AlwaysSent
        /\ C7_AlwaysSent \subseteq DOMAIN props

\* C7 witness: a payload without score for a record with a score, under a
\* schema without the score property
C7_Witness ==
    /\ props # NoProps
    /\ j \in DOMAIN items
    /\ items[j].score # E
    /\ "score" \notin db_props
    /\ "score" \notin DOMAIN props

\* the fields of the externally visible row
Visible(it) ==
    <<it.title, it.dtstart, it.dtend, it.tournament, it.round, it.location, it.kind,
      it.certainty, it.home, it.away, it.score, it.source, it.uid>>

\* C9 (as claimed): two resolved records have equal fingerprints iff every
\* visible field is equal.
C9_FingerprintIffVisible ==
    \A m, n \in DOMAIN items :
        (items[m].fingerprint = items[n].fingerprint) <=> (Visible(items[m]) = Visible(items[n]))

\* the text fields that are hashed
HashedText(it) ==
    {it.uid, it.title, it.summary, it.location, it.tournament, it.round, it.kind,
     it.certainty, it.home, it.away, it.score, it.source, it.matchup, it.type}

NoDelimiter(it) == \A f \in HashedText(it) : ~Has(f, "|")

\* C9 (amended): two resolved records none of whose hashed fields contains
\* the delimiter "|" have equal fingerprints only if every visible field is
\* equal; records equal in every visible field and in the summary (and, in
\* the FIXED revision, the type and matchup) have equal fingerprints.
C9_FingerprintImpliesVisible ==
    \A m, n \in DOMAIN items :
        /\ (NoDelimiter(items[m]) /\ NoDelimiter(items[n])
             /\ items[m].fingerprint = items[n].fingerprint)
              => Visible(items[m]) = Visible(items[n])
        /\ (/\ Visible(items[m]) = Visible(items[n])
            /\ items[m].summary = items[n].summary
            /\ items[m].type = items[n].type
            /\ items[m].matchup = items[n].matchup)
              => items[m].fingerprint = items[n].fingerprint

\* C9 witness: two different events resolved to records with the same
\* fingerprint and the same visible fields
C9_Witness ==
    /\ Len(items) = 2
    /\ calendar[1] # calendar[2]
    /\ NoDelimiter(items[1]) /\ NoDelimiter(items[2])
    /\ items[1].fingerprint = items[2].fingerprint
    /\ Visible(items[1]) = Visible(items[2])

\* the value of the kubun line of a DESCRIPTION (E when there is none)
KubunLabel(desc) ==
    IF \E n \in DOMAIN desc : desc[n].label = "kubun"
    THEN desc[CHOOSE n \in DOMAIN desc :
                /\ desc[n].label = "kubun"
                /\ \A m \in (n + 1)..Len(desc) : desc[m].label # "kubun"].value
    ELSE E

\* in SpecItem every event resolves, so items[n] is the record of calendar[n]
\* C10 (as claimed): a valid kind label is the resolved kind; otherwise the
\* kind is kekka if a score was resolved or the end has passed, else yotei.
C10_KindByScoreOrEnd ==
    \A n \in DOMAIN items :
        LET label == KubunLabel(calendar[n].description)
            it == items[n]
        IN  IF label \in {YOTEI, KEKKA} THEN it.kind = label
            ELSE IF it.score # E \/ (it.dtend # NoTime /\ it.dtend < now) THEN it.kind = KEKKA
            ELSE it.kind = YOTEI

\* C10 (amended): a valid kind label is the resolved kind and no inference
\* overrides it; otherwise the kind is yotei if the start is later than
\* now and kekka in every other case; neither the score nor the end plays
\* a part.
C10_KindByStart ==
    \A n \in DOMAIN items :
        LET label == KubunLabel(calendar[n].description)
            it == items[n]
        IN  IF label \in {YOTEI, KEKKA} THEN it.kind = label
            ELSE IF it.dtstart > now THEN it.kind = YOTEI
            ELSE it.kind = KEKKA

\* C10 witness: a record with a resolved score and a start still to come,
\* resolved yotei without a label; and a labelled yotei record whose start
\* has passed
C10_Witness ==
    /\ Len(items) = 2
    /\ KubunLabel(calendar[1].description) = E
    /\ items[1].score # E /\ items[1].dtstart > now /\ items[1].kind = YOTEI
    /\ KubunLabel(calendar[2].description) = YOTEI
    /\ items[2].kind = YOTEI

\* the kind that parse_desc returns for a DESCRIPTION, in either revision
ParsedKind(v, desc) ==
    IF v = "main" THEN parse_desc(desc).kind ELSE parse_desc_FIXED(desc).kind

\* C11 (as claimed): a kubun label whose value is not one of the two kind
\* tokens becomes the round: the resolved round equals that value, the
\* parsed kind stays empty, and the kind is inferred from the start.
C11_LegacyKindBecomesRound ==
    \A n \in DOMAIN items :
        LET desc == calendar[n].description
            label == Strip(KubunLabel(desc))
            it == items[n]
        IN  (label # E /\ label \notin KindTokens) =>
                /\ it.round = label
                /\ ParsedKind(variant, desc) = E
                /\ it.kind = (IF it.dtstart > now THEN YOTEI ELSE KEKKA)

\* the configuration the run has read lacks the token, the database id or
\* the calendar file
BadConfig == ~env.token \/ ~env.dbid \/ ~env.file

\* C12: with a missing token, database id or calendar file main returns
\* exit code 2, having issued no operation on the store (no retrieval, no
\* listing, no create, no update) and not having parsed the calendar file.
C12_ConfigErrorBeforeAnyWork ==
    BadConfig =>
        /\ pc = "exit2" /\ ExitCode = 2
        /\ calls = {} /\ ops = << >> /\ pages = << >>
        /\ i = 0 /\ items = << >>
        /\ store = begun

\* C12 witness: a run that ended with exit code 2 for a missing calendar
\* file, after an earlier run that had written to the store
C12_Witness ==
    /\ pc = "exit2" /\ ~env.file
    /\ run > 1
    /\ \E k \in DOMAIN prev.ops : prev.ops[k].op \in {"create", "update"} /\ prev.ops[k].ok

\* at most one row of the store carries each (non-empty) UID
UniqueUids(rows) ==
    \A m, n \in DOMAIN rows :
        (Strip(rows[m].uid) # E /\ Strip(rows[m].uid) = Strip(rows[n].uid)) => m = n

\* C13 (as claimed): if the store holds at most one row per UID when main
\* starts, it holds at most one row per UID when the run has completed,
\* whatever UIDs the events of the calendar file carry.
C13_UidUniquenessPreserved ==
    (pc = "done" /\ UniqueUids(begun)) => UniqueUids(store)

\* C14 (as claimed): for every chain of pages and every has_more and
\* next_cursor the store answers with, fetch_all_pages stops after
\* finitely many requests and returns every row of the store exactly once,
\* in page order, before any write is issued.
C14_FetchTerminatesComplete ==
    /\ <>(pc = "fetched")
    /\ [](pc = "fetched" => (pages = store /\ ops = << >>))

=============================================================================
